---- MODULE Spec2Model ----
(***************************************************************************)
(* Model of the content-suggestion generator of src/main.py: the seven     *)
(* text generators, the checklist evaluator and the /api/analyze handler   *)
(* with its best-effort persistence.                                       *)
(*                                                                         *)
(* A Python str is modelled as a sequence of one-character strings, so     *)
(* that split, strip, replace, lower, capitalize, slicing, len and the     *)
(* substring test are computed character by character as Python computes   *)
(* them.  An optional str (str | None) is a record [some, val].            *)
(***************************************************************************)
EXTENDS Integers, Sequences, FiniteSets, TLC

\* ------------------------------------------------------------------------
\* Python str primitives
\* ------------------------------------------------------------------------

LowerLetters ==
    <<"a", "b", "c", "d", "e", "f", "g", "h", "i", "j", "k", "l", "m",
      "n", "o", "p", "q", "r", "s", "t", "u", "v", "w", "x", "y", "z">>

UpperLetters ==
    <<"A", "B", "C", "D", "E", "F", "G", "H", "I", "J", "K", "L", "M",
      "N", "O", "P", "Q", "R", "S", "T", "U", "V", "W", "X", "Y", "Z">>

\* str.lower() on one character.
LowerChar(c) ==
    IF \E i \in 1..Len(UpperLetters) : UpperLetters[i] = c
    THEN LowerLetters[CHOOSE i \in 1..Len(UpperLetters) : UpperLetters[i] = c]
    ELSE c

\* str.upper() on one character.
UpperChar(c) ==
    IF \E i \in 1..Len(LowerLetters) : LowerLetters[i] = c
    THEN UpperLetters[CHOOSE i \in 1..Len(LowerLetters) : LowerLetters[i] = c]
    ELSE c

\* str.lower()
Lower(s) == [i \in 1..Len(s) |-> LowerChar(s[i])]

\* The title-case form of one character, as str.capitalize() applies it to
\* the first character.  It can be longer than the character: "ß" becomes
\* "Ss" (and "ß".lower() stays "ß").
TitleChar(c) == IF c = "ß" THEN <<"S", "s">> ELSE <<UpperChar(c)>>

\* str.capitalize(): first character title-cased, the rest lower-cased.
Capitalize(s) ==
    IF s = <<>> THEN <<>> ELSE TitleChar(s[1]) \o Lower(Tail(s))

\* The characters str.split() and str.strip() treat as whitespace.
IsSpace(c) == c \in {" ", "\t", "\n"}

\* str.strip()
Strip(s) ==
    LET keep == {i \in 1..Len(s) : ~IsSpace(s[i])}
    IN  IF keep = {} THEN <<>>
        ELSE SubSeq(s, CHOOSE i \in keep : \A j \in keep : i <= j,
                       CHOOSE i \in keep : \A j \in keep : i >= j)

\* str.replace(" ", "")
RemoveSpaces(s) == SelectSeq(s, LAMBDA c : c # " ")

\* s[:n]
Take(s, n) == SubSeq(s, 1, IF n < Len(s) THEN n ELSE Len(s))

\* str.split(): the maximal runs of non-whitespace characters, in order.
RECURSIVE Split(_)
Split(s) ==
    IF s = <<>> THEN <<>>
    ELSE IF IsSpace(s[1]) THEN Split(Tail(s))
    ELSE LET stops == {i \in 1..Len(s) : IsSpace(s[i])}
             n == IF stops = {} THEN Len(s) + 1
                  ELSE CHOOSE i \in stops : \A j \in stops : i <= j
         IN  <<SubSeq(s, 1, n - 1)>> \o Split(SubSeq(s, n, Len(s)))

\* sep.join(parts)
RECURSIVE Join(_, _)
Join(sep, parts) ==
    IF parts = <<>> THEN <<>>
    ELSE IF Len(parts) = 1 THEN parts[1]
    ELSE parts[1] \o sep \o Join(sep, Tail(parts))

\* needle in hay
Contains(hay, needle) ==
    \E i \in 0..(Len(hay) - Len(needle)) :
        SubSeq(hay, i + 1, i + Len(needle)) = needle

\* str | None
None == [some |-> FALSE, val |-> <<>>]
Some(s) == [some |-> TRUE, val |-> s]

\* Python truthiness of a str | None: None and "" are falsy.
Truthy(o) == o.some /\ o.val # <<>>

\* ------------------------------------------------------------------------
\* String literals of src/main.py
\* ------------------------------------------------------------------------

\* ": rahasia yang jarang dibahas"
HookPhrase ==
    <<":", " ", "r", "a", "h", "a", "s", "i", "a", " ", "y", "a", "n", "g", " ", "j", "a", "r",
       "a", "n", "g", " ", "d", "i", "b", "a", "h", "a", "s">>
\* " untuk "
HookUntuk ==
    <<" ", "u", "n", "t", "u", "k", " ">>
\* " yang wajib kamu tahu sekarang"
HookPad ==
    <<" ", "y", "a", "n", "g", " ", "w", "a", "j", "i", "b", " ", "k", "a", "m", "u", " ", "t",
       "a", "h", "u", " ", "s", "e", "k", "a", "r", "a", "n", "g">>
\* " | Panduan Lengkap"
TitleSuffix ==
    <<" ", "|", " ", "P", "a", "n", "d", "u", "a", "n", " ", "L", "e", "n", "g", "k", "a", "p">>
\* "Tutorial langkah-demi-langkah: "
AngleTutorialPre ==
    <<"T", "u", "t", "o", "r", "i", "a", "l", " ", "l", "a", "n", "g", "k", "a", "h", "-", "d",
       "e", "m", "i", "-", "l", "a", "n", "g", "k", "a", "h", ":", " ">>
\* " dari nol sampai jadi"
AngleTutorialPost ==
    <<" ", "d", "a", "r", "i", " ", "n", "o", "l", " ", "s", "a", "m", "p", "a", "i", " ", "j",
       "a", "d", "i">>
\* "Daftar 7 langkah/ide untuk "
AngleListiclePre ==
    <<"D", "a", "f", "t", "a", "r", " ", "7", " ", "l", "a", "n", "g", "k", "a", "h", "/", "i",
       "d", "e", " ", "u", "n", "t", "u", "k", " ">>
\* " beserta contoh praktis"
AngleListiclePost ==
    <<" ", "b", "e", "s", "e", "r", "t", "a", " ", "c", "o", "n", "t", "o", "h", " ", "p", "r",
       "a", "k", "t", "i", "s">>
\* "Studi kasus nyata menerapkan "
AngleStudyPre ==
    <<"S", "t", "u", "d", "i", " ", "k", "a", "s", "u", "s", " ", "n", "y", "a", "t", "a", " ",
       "m", "e", "n", "e", "r", "a", "p", "k", "a", "n", " ">>
\* " dan hasilnya"
AngleStudyPost ==
    <<" ", "d", "a", "n", " ", "h", "a", "s", "i", "l", "n", "y", "a">>
\* "Review tools/strategi untuk "
AngleReviewPre ==
    <<"R", "e", "v", "i", "e", "w", " ", "t", "o", "o", "l", "s", "/", "s", "t", "r", "a", "t",
       "e", "g", "i", " ", "u", "n", "t", "u", "k", " ">>
\* " beserta cara pakainya"
AngleReviewPost ==
    <<" ", "b", "e", "s", "e", "r", "t", "a", " ", "c", "a", "r", "a", " ", "p", "a", "k", "a",
       "i", "n", "y", "a">>
\* "Kerangka eksekusi praktis untuk "
AngleGenericPre ==
    <<"K", "e", "r", "a", "n", "g", "k", "a", " ", "e", "k", "s", "e", "k", "u", "s", "i", " ",
       "p", "r", "a", "k", "t", "i", "s", " ", "u", "n", "t", "u", "k", " ">>
\* " (hook > value > CTA)"
AngleGenericPost ==
    <<" ", "(", "h", "o", "o", "k", " ", ">", " ", "v", "a", "l", "u", "e", " ", ">", " ", "C",
       "T", "A", ")">>
\* "Subscribe untuk tips tiap minggu dan tinggalkan komentar pertanyaanmu!"
CtaGeneric ==
    <<"S", "u", "b", "s", "c", "r", "i", "b", "e", " ", "u", "n", "t", "u", "k", " ", "t", "i",
       "p", "s", " ", "t", "i", "a", "p", " ", "m", "i", "n", "g", "g", "u", " ", "d", "a", "n",
       " ", "t", "i", "n", "g", "g", "a", "l", "k", "a", "n", " ", "k", "o", "m", "e", "n", "t",
       "a", "r", " ", "p", "e", "r", "t", "a", "n", "y", "a", "a", "n", "m", "u", "!">>
\* "Subscribe untuk "
CtaAudiencePre ==
    <<"S", "u", "b", "s", "c", "r", "i", "b", "e", " ", "u", "n", "t", "u", "k", " ">>
\* " tips mingguan, like & komentar topik selanjutnya!"
CtaAudiencePost ==
    <<" ", "t", "i", "p", "s", " ", "m", "i", "n", "g", "g", "u", "a", "n", ",", " ", "l", "i",
       "k", "e", " ", "&", " ", "k", "o", "m", "e", "n", "t", "a", "r", " ", "t", "o", "p", "i",
       "k", " ", "s", "e", "l", "a", "n", "j", "u", "t", "n", "y", "a", "!">>
\* "Bahas "
DescPre ==
    <<"B", "a", "h", "a", "s", " ">>
\* " dengan contoh praktis dan langkah yang bisa langsung dipakai."
DescPost ==
    <<" ", "d", "e", "n", "g", "a", "n", " ", "c", "o", "n", "t", "o", "h", " ", "p", "r", "a",
       "k", "t", "i", "s", " ", "d", "a", "n", " ", "l", "a", "n", "g", "k", "a", "h", " ", "y",
       "a", "n", "g", " ", "b", "i", "s", "a", " ", "l", "a", "n", "g", "s", "u", "n", "g", " ",
       "d", "i", "p", "a", "k", "a", "i", ".">>
\* " Kata kunci: "
DescKeywordsPre ==
    <<" ", "K", "a", "t", "a", " ", "k", "u", "n", "c", "i", ":", " ">>
\* " Tonton sampai akhir untuk rangkuman dan template gratis."
DescFiller ==
    <<" ", "T", "o", "n", "t", "o", "n", " ", "s", "a", "m", "p", "a", "i", " ", "a", "k", "h",
       "i", "r", " ", "u", "n", "t", "u", "k", " ", "r", "a", "n", "g", "k", "u", "m", "a", "n",
       " ", "d", "a", "n", " ", "t", "e", "m", "p", "l", "a", "t", "e", " ", "g", "r", "a", "t",
       "i", "s", ".">>
\* "Indonesia"
TagIndonesia ==
    <<"I", "n", "d", "o", "n", "e", "s", "i", "a">>
\* "#YouTubeTips"
TagYouTubeTips ==
    <<"#", "Y", "o", "u", "T", "u", "b", "e", "T", "i", "p", "s">>
\* "#contentcreator"
TagContentCreator ==
    <<"#", "c", "o", "n", "t", "e", "n", "t", "c", "r", "e", "a", "t", "o", "r">>
\* " (±1 jam)"
PostTimeSuffix ==
    <<" ", "(", "±", "1", " ", "j", "a", "m", ")">>
\* "WIB"
WIB ==
    <<"W", "I", "B">>
\* "shorts"
Shorts ==
    <<"s", "h", "o", "r", "t", "s">>
\* "youtube"
Youtube ==
    <<"y", "o", "u", "t", "u", "b", "e">>
\* "tutorial"
Tutorial ==
    <<"t", "u", "t", "o", "r", "i", "a", "l">>
\* "listicle"
Listicle ==
    <<"l", "i", "s", "t", "i", "c", "l", "e">>
\* "study"
Study ==
    <<"s", "t", "u", "d", "y">>
\* "review"
Review ==
    <<"r", "e", "v", "i", "e", "w">>
\* "langkah"
Langkah ==
    <<"l", "a", "n", "g", "k", "a", "h">>
\* "studi"
Studi ==
    <<"s", "t", "u", "d", "i">>
\* "kerangka"
Kerangka ==
    <<"k", "e", "r", "a", "n", "g", "k", "a">>
\* "daftar"
Daftar ==
    <<"d", "a", "f", "t", "a", "r">>
\* "subscribe"
Subscribe ==
    <<"s", "u", "b", "s", "c", "r", "i", "b", "e">>
\* "ikuti"
Ikuti ==
    <<"i", "k", "u", "t", "i">>
\* "simpan"
Simpan ==
    <<"s", "i", "m", "p", "a", "n">>
\* "komentar"
Komentar ==
    <<"k", "o", "m", "e", "n", "t", "a", "r">>
\* "like"
Like ==
    <<"l", "i", "k", "e">>
\* ["07:30", "12:30", "18:30", "21:00"]
ShortsSlots ==
    <<<<"0", "7", ":", "3", "0">>,
      <<"1", "2", ":", "3", "0">>,
      <<"1", "8", ":", "3", "0">>,
      <<"2", "1", ":", "0", "0">>>>
\* ["11:00", "16:00", "19:00", "21:00"]
DefaultSlots ==
    <<<<"1", "1", ":", "0", "0">>,
      <<"1", "6", ":", "0", "0">>,
      <<"1", "9", ":", "0", "0">>,
      <<"2", "1", ":", "0", "0">>>>

\* ------------------------------------------------------------------------
\* The text generators
\* ------------------------------------------------------------------------

\* pick_best_time reading the second slot of the table.
PickBestTimeSecondSlot(region, platform) ==
    LET base == IF platform = Shorts THEN ShortsSlots ELSE DefaultSlots
        tz == IF Truthy(region) THEN region.val ELSE WIB
    IN  base[2] \o <<" ">> \o tz \o PostTimeSuffix

\* pick_best_time(region, platform): the third slot of the platform's table.
PickBestTime(region, platform) ==
    LET base == IF platform = Shorts THEN ShortsSlots ELSE DefaultSlots
        tz == IF Truthy(region) THEN region.val ELSE WIB
    IN  base[3] \o <<" ">> \o tz \o PostTimeSuffix

\* "#" + k
Hash(k) == <<"#">> \o k

\* The loop over keywords[:5]: two tags per keyword that is non-empty once
\* stripped and with its spaces removed.
RECURSIVE KeywordPool(_)
KeywordPool(ks) ==
    IF ks = <<>> THEN <<>>
    ELSE LET k2 == RemoveSpaces(Strip(Head(ks)))
         IN  (IF k2 # <<>> THEN <<Hash(k2), Hash(Capitalize(k2))>> ELSE <<>>)
             \o KeywordPool(Tail(ks))

\* The three tags a truthy niche adds to the pool.
NichePool(niche) ==
    IF Truthy(niche)
    THEN LET n == RemoveSpaces(Strip(niche.val))
         IN  <<Hash(n), Hash(n \o TagIndonesia), TagYouTubeTips>>
    ELSE <<>>

\* The dedup loop: keeps h when h.lower() was not seen and fewer than 10
\* tags are kept so far.
RECURSIVE Dedup(_, _, _)
Dedup(pool, uniq, seen) ==
    IF pool = <<>> THEN uniq
    ELSE LET h == Head(pool)
         IN  IF Lower(h) \notin seen /\ Len(uniq) < 10
             THEN Dedup(Tail(pool), Append(uniq, h), seen \cup {Lower(h)})
             ELSE Dedup(Tail(pool), uniq, seen)

\* A padding loop that never runs.
PadTagsNever(uniq) == uniq

\* A padding loop that applies the dedup check: the literal is added once.
PadTagsUnique(uniq) ==
    IF Len(uniq) < 3 /\ \A i \in 1..Len(uniq) : Lower(uniq[i]) # TagContentCreator
    THEN Append(uniq, TagContentCreator)
    ELSE uniq

\* while len(uniq) < 3: uniq.append("#contentcreator")
RECURSIVE PadTags(_)
PadTags(uniq) ==
    IF Len(uniq) < 3 THEN PadTags(Append(uniq, TagContentCreator)) ELSE uniq

\* build_hashtags(keywords, niche)
BuildHashtags(keywords, niche) ==
    LET pool == KeywordPool(Take(keywords, 5)) \o NichePool(niche)
        uniq == Dedup(pool, <<>>, {})
    IN  Take(PadTags(uniq), 10)

\* make_hook without the padding branch.
MakeHookNoPad(topic, audience) ==
    LET base == IF Truthy(audience)
                THEN topic \o HookUntuk \o audience.val \o HookPhrase
                ELSE topic \o HookPhrase
        words == Split(base)
    IN  IF Len(words) > 16 THEN Join(<<" ">>, Take(words, 16)) ELSE base

\* make_hook(topic, audience)
MakeHook(topic, audience) ==
    LET base == IF Truthy(audience)
                THEN topic \o HookUntuk \o audience.val \o HookPhrase
                ELSE topic \o HookPhrase
        words == Split(base)
    IN  IF Len(words) < 6 THEN base \o HookPad
        ELSE IF Len(words) > 16 THEN Join(<<" ">>, Take(words, 16))
        ELSE base

\* make_title raises IndexError exactly when keywords is empty and
\* topic.split() is empty (topic.split()[0]).
MakeTitleRaises(topic, keywords) == keywords = <<>> /\ Split(topic) = <<>>

\* make_title taking the first word of topic whatever keywords holds.
MakeTitleIgnoresKeywords(topic, keywords) ==
    LET kw == IF Split(topic) # <<>> THEN Split(topic)[1] ELSE keywords[1]
    IN  Capitalize(kw) \o <<":", " ">> \o topic \o TitleSuffix

\* make_title(topic, keywords), where it returns.
MakeTitle(topic, keywords) ==
    LET kw == IF keywords # <<>> THEN keywords[1] ELSE Split(topic)[1]
    IN  Capitalize(kw) \o <<":", " ">> \o topic \o TitleSuffix

\* choose_angle looking format_hint up without lower().
ChooseAngleCaseSensitive(format_hint, topic) ==
    IF format_hint = Tutorial THEN AngleTutorialPre \o topic \o AngleTutorialPost
    ELSE IF format_hint = Listicle THEN AngleListiclePre \o topic \o AngleListiclePost
    ELSE IF format_hint = Study THEN AngleStudyPre \o topic \o AngleStudyPost
    ELSE IF format_hint = Review THEN AngleReviewPre \o topic \o AngleReviewPost
    ELSE AngleGenericPre \o topic \o AngleGenericPost

\* choose_angle(format_hint, topic): dictionary lookup with a default.
ChooseAngle(format_hint, topic) ==
    LET key == Lower(format_hint)
    IN  IF key = Tutorial THEN AngleTutorialPre \o topic \o AngleTutorialPost
        ELSE IF key = Listicle THEN AngleListiclePre \o topic \o AngleListiclePost
        ELSE IF key = Study THEN AngleStudyPre \o topic \o AngleStudyPost
        ELSE IF key = Review THEN AngleReviewPre \o topic \o AngleReviewPost
        ELSE AngleGenericPre \o topic \o AngleGenericPost

\* make_cta(audience)
MakeCta(audience) ==
    IF Truthy(audience) THEN CtaAudiencePre \o audience.val \o CtaAudiencePost
    ELSE CtaGeneric

\* make_description without the filler sentence.
MakeDescriptionNoFiller(topic, keywords) ==
    LET core0 == DescPre \o topic \o DescPost
        core1 == IF keywords # <<>>
                 THEN core0 \o DescKeywordsPre
                      \o Join(<<",", " ">>, Take(keywords, 3)) \o <<".">>
                 ELSE core0
    IN  Take(core1, 220)

\* make_description(topic, keywords)
MakeDescription(topic, keywords) ==
    LET core0 == DescPre \o topic \o DescPost
        core1 == IF keywords # <<>>
                 THEN core0 \o DescKeywordsPre
                      \o Join(<<",", " ">>, Take(keywords, 3)) \o <<".">>
                 ELSE core0
        core2 == IF Len(core1) < 80 THEN core1 \o DescFiller ELSE core1
    IN  Take(core2, 220)

\* ------------------------------------------------------------------------
\* The checklist evaluator
\* ------------------------------------------------------------------------

\* Python's round() of the fraction n/d (d > 0): nearest integer, ties to even.
RoundHalfEven(n, d) ==
    LET q == n \div d
        r == n % d
    IN  IF 2 * r < d THEN q
        ELSE IF 2 * r > d THEN q + 1
        ELSE IF q % 2 = 0 THEN q ELSE q + 1

\* The seven checks of evaluate, in the order of the dict.
Checks(ci) ==
    [hook_6_16_kata |-> 6 <= Len(Split(ci.hook)) /\ Len(Split(ci.hook)) <= 16,
     judul_mengandung_kata_kunci |->
         IF ci.keywords # <<>>
         THEN \E i \in 1..Len(ci.keywords) :
                  Contains(Lower(ci.seo_title), Lower(ci.keywords[i]))
         ELSE TRUE,
     angle_spesifik |->
         \E word \in {Langkah, Studi, Review, Kerangka, Daftar} :
             Contains(Lower(ci.angle), word),
     cta_jelas |->
         \E x \in {Subscribe, Ikuti, Simpan, Komentar, Like} :
             Contains(Lower(ci.cta), x),
     hashtag_3_10 |-> 3 <= Len(ci.hashtags) /\ Len(ci.hashtags) <= 10,
     deskripsi_80_220 |-> 80 <= Len(ci.description) /\ Len(ci.description) <= 220,
     ada_rekomendasi_jam |-> ci.post_time # <<>>]

\* sum(1 for v in checks.values() if v)
TrueCount(checks) == Cardinality({c \in DOMAIN checks : checks[c]})

\* evaluate with int(...) applied without round(...): truncation.
EvaluateTruncates(ci) ==
    LET checks == Checks(ci)
    IN  [score |-> (TrueCount(checks) * 100) \div Cardinality(DOMAIN checks),
         criteria |-> checks]

\* evaluate(criteria_input)
Evaluate(ci) ==
    LET checks == Checks(ci)
    IN  [score |-> RoundHalfEven(TrueCount(checks) * 100, Cardinality(DOMAIN checks)),
         criteria |-> checks]

\* ------------------------------------------------------------------------
\* Bounds and inputs
\* ------------------------------------------------------------------------

\* Worker threads serving /api/analyze concurrently, one request each.
NumWorkers == 2
\* Longest topic, in words, that the pure-function calls are given.
MaxTopicWords == 17
\* Longest list of pairwise distinct keywords.
MaxKeywords == 7
\* Longest keyword list drawn freely from KeywordVocabulary.
MaxFreeKeywords == 3

Workers == 1..NumWorkers

\* "edit video"
EditVideo ==
    <<"e", "d", "i", "t", " ", "v", "i", "d", "e", "o">>
\* "capcut"
Capcut ==
    <<"c", "a", "p", "c", "u", "t">>
\* "editing"
Editing ==
    <<"e", "d", "i", "t", "i", "n", "g">>
\* "pemula"
Pemula ==
    <<"p", "e", "m", "u", "l", "a">>
\* "ibu muda"
IbuMuda ==
    <<"i", "b", "u", " ", "m", "u", "d", "a">>
\* "Tech Review"
TechReview ==
    <<"T", "e", "c", "h", " ", "R", "e", "v", "i", "e", "w">>

\* "w w ... w": a topic of n words.
WordsTopic(n) == Join(<<" ">>, [i \in 1..n |-> <<"w">>])

Topics ==
    {WordsTopic(n) : n \in 0..MaxTopicWords}
    \cup {<<" ">>, <<"a", " ">>, <<"\t", "a">>, EditVideo}

Audiences == {None, Some(<<>>), Some(<<" ">>), Some(Pemula), Some(IbuMuda)}

Niches == {None, Some(<<>>), Some(<<"a">>), Some(TechReview)}

KeywordVocabulary ==
    {<<>>, <<" ">>, <<"a">>, <<"A">>, <<"a", " ", "b">>, <<"c", "d">>, <<"ß">>}

Digits == <<"1", "2", "3", "4", "5", "6", "7", "8", "9">>

\* n pairwise distinct keywords "k1", "k2", ...
DistinctKeywords(n) == [i \in 1..n |-> <<"k", Digits[i]>>]

\* n pairwise distinct keywords "ß1", "ß2", ..., whose capitalized tags
\* "#Ss1", ... survive the dedup.
SharpKeywords(n) == [i \in 1..n |-> <<"ß", Digits[i]>>]

FreeKeywordLists ==
    UNION {[1..n -> KeywordVocabulary] : n \in 0..MaxFreeKeywords}

KeywordLists ==
    FreeKeywordLists
    \cup {DistinctKeywords(n) : n \in 0..MaxKeywords}
    \cup {SharpKeywords(n) : n \in 0..MaxKeywords}
    \cup {<<Capcut, Editing>>}

TitleKeywordLists == {<<>>, <<<<>>>>, <<Capcut, Editing>>, <<<<"ß">>>>}

\* n copies of the tag "#contentcreator".
TagList(n) == [i \in 1..n |-> TagContentCreator]

\* A text of n characters.
Filler(n) == [i \in 1..n |-> "x"]

\* Topics for make_description: around the lengths at which the filler is
\* appended (core shorter than 80) and the result is cut (longer than 220).
DescriptionTopics ==
    Topics \cup {Filler(n) : n \in {12, 13, 14, 152, 153, 154, 230}}

DescriptionKeywordLists ==
    {<<>>, <<<<>>>>, <<<<"a">>>>, <<Capcut, Editing>>,
     <<Capcut, Editing, Pemula, IbuMuda>>, <<Filler(230)>>}

Regions == {None, Some(<<>>), Some(WIB), Some(<<"W", "I", "T", "A">>)}

\* Platform and format-hint values: the four format names, other names,
\* other spellings of the four, and the empty string.
Platforms ==
    {Tutorial, Listicle, Study, Review, Shorts, Youtube, <<>>,
     Capitalize(Tutorial), Capitalize(Shorts), Capitalize(Review),
     [i \in 1..Len(Study) |-> UpperChar(Study[i])],
     Tutorial \o <<" ">>}

\* Artifact sets given to evaluate directly: every check can pass or fail,
\* at both ends of each range.
ArtifactSets ==
    [hook : {WordsTopic(5), WordsTopic(6), WordsTopic(16), WordsTopic(17)},
     seo_title : {<<>>, Capitalize(Capcut)},
     keywords : {<<>>, <<Capcut>>, <<Editing>>},
     angle : {<<"x">>, AngleStudyPre},
     cta : {<<>>, CtaGeneric},
     hashtags : {TagList(2), TagList(3), TagList(10), TagList(11)},
     description : {Filler(79), Filler(80), Filler(220), Filler(221)},
     post_time : {<<>>, DefaultSlots[3]}]

\* The pure-function calls a behaviour of SpecFn starts from.
Calls ==
    [fn : {"build_hashtags"}, keywords : KeywordLists, niche : Niches]
    \cup [fn : {"make_hook"}, topic : Topics, audience : Audiences]
    \cup [fn : {"make_title"}, topic : Topics, keywords : TitleKeywordLists]
    \cup [fn : {"evaluate"}, input : ArtifactSets]
    \cup [fn : {"make_description"}, topic : DescriptionTopics,
          keywords : DescriptionKeywordLists]
    \cup [fn : {"pick_best_time"}, region : Regions, platform : Platforms]
    \cup [fn : {"choose_angle"}, format_hint : Platforms, topic : Topics]

\* Request bodies posted to /api/analyze.  topic = None is a body without
\* the required field; the other fields carry what pydantic parsed.
Requests ==
    {[topic |-> Some(EditVideo), keywords |-> <<Capcut, Editing>>, niche |-> None,
      audience |-> Some(Pemula), platform |-> Tutorial, region |-> Some(WIB)],
     [topic |-> Some(<<"a">>), keywords |-> <<>>, niche |-> Some(TechReview),
      audience |-> None, platform |-> Shorts, region |-> None],
     [topic |-> Some(<<>>), keywords |-> <<>>, niche |-> None,
      audience |-> None, platform |-> Youtube, region |-> Some(WIB)],
     [topic |-> None, keywords |-> <<>>, niche |-> None,
      audience |-> None, platform |-> Youtube, region |-> Some(WIB)]}

\* Request bodies for one worker serving requests on its own: every
\* combination of the field values below.
AnalyzeTopics ==
    {None, Some(<<>>), Some(<<"a">>), Some(EditVideo),
     Some(WordsTopic(MaxTopicWords)), Some(Filler(230))}

AnalyzeKeywordLists ==
    {<<>>, <<<<>>>>, <<Capcut, Editing>>, <<<<"ß">>>>, <<<<"ß">>, <<"A">>>>,
     DistinctKeywords(MaxKeywords)}

AnalyzeRequests ==
    [topic : AnalyzeTopics,
     keywords : AnalyzeKeywordLists,
     niche : {None, Some(TechReview)},
     audience : {None, Some(<<" ">>), Some(Pemula)},
     platform : Platforms,
     region : {None, Some(<<"W", "I", "T", "A">>)}]

\* ------------------------------------------------------------------------
\* State
\* ------------------------------------------------------------------------

VARIABLES
    pc,       \* pc[w]: where worker w is in the analyze handler
    req,      \* req[w]: the request body worker w was given
    result,   \* result[w]: the handler's local dict `result`
    attempt,  \* attempt[w]: the create_document attempt of worker w
    resp,     \* resp[w]: the HTTP response sent for worker w's request
    db,       \* the documents create_document has stored, in order
    call,     \* SpecFn: the pure-function call under test
    status,   \* SpecFn: "pending", "returned" or "raised"
    ret       \* SpecFn: the value the call returned

vars == <<pc, req, result, attempt, resp, db, call, status, ret>>
handlerVars == <<pc, req, result, attempt, resp, db>>
callVars == <<call, status, ret>>

NoRequest ==
    [topic |-> None, keywords |-> <<>>, niche |-> None, audience |-> None,
     platform |-> <<>>, region |-> None]

\* The handler's `result` before it is built.
NoResult == [built |-> FALSE]

NoResponse == [code |-> 0, body |-> NoResult]

NoCall == [fn |-> "none"]

\* ------------------------------------------------------------------------
\* The /api/analyze handler
\* ------------------------------------------------------------------------

\* The angle expression handing platform to choose_angle as it is.
AnalyzeAngleDirect(platform, topic) == ChooseAngle(platform, topic)

\* The angle expression of analyze: platform is the format hint only when it
\* is one of the four names, else the hint is "tutorial".
AnalyzeAngle(platform, topic) ==
    IF platform \in {Tutorial, Listicle, Study, Review}
    THEN ChooseAngle(platform, topic)
    ELSE ChooseAngle(Tutorial, topic)

\* The dict `result` as analyze builds it from the generators' outputs.
BuildResult(rq) ==
    [built |-> TRUE,
     topic |-> rq.topic.val,
     keywords |-> rq.keywords,
     niche |-> rq.niche,
     audience |-> rq.audience,
     format |-> rq.platform,
     platform |-> Youtube,
     region |-> rq.region,
     seo_title |-> MakeTitle(rq.topic.val, rq.keywords),
     hook |-> MakeHook(rq.topic.val, rq.audience),
     angle |-> AnalyzeAngle(rq.platform, rq.topic.val),
     cta |-> MakeCta(rq.audience),
     description |-> MakeDescription(rq.topic.val, rq.keywords),
     hashtags |-> BuildHashtags(rq.keywords, rq.niche),
     post_time |-> PickBestTime(rq.region, rq.platform)]

\* result.update(evaluate({**result}))
Scored(res) ==
    LET scored == Evaluate(res)
    IN  [f \in DOMAIN res \cup {"score", "criteria"} |->
            IF f = "score" THEN scored.score
            ELSE IF f = "criteria" THEN scored.criteria
            ELSE res[f]]

\* A request arrives at an idle worker; pydantic validates the body against
\* AnalyzeRequest and rejects one without topic before the handler runs.
ReceiveFrom(w, bodies) ==
    /\ pc[w] = "idle"
    /\ \E rq \in bodies :
        /\ req' = [req EXCEPT ![w] = rq]
        /\ IF rq.topic.some
           THEN /\ pc' = [pc EXCEPT ![w] = "received"]
                /\ resp' = resp
           ELSE /\ pc' = [pc EXCEPT ![w] = "done"]
                /\ resp' = [resp EXCEPT ![w] = [code |-> 422, body |-> NoResult]]
    /\ UNCHANGED <<result, attempt, db, callVars>>

Receive(w) == ReceiveFrom(w, Requests)

\* The generators run and `result` is assembled as a dict shared by all
\* workers instead of a local of the call.
GenerateShared(w) ==
    /\ pc[w] = "received"
    /\ ~MakeTitleRaises(req[w].topic.val, req[w].keywords)
    /\ result' = [v \in Workers |-> BuildResult(req[w])]
    /\ pc' = [pc EXCEPT ![w] = "generated"]
    /\ UNCHANGED <<req, attempt, resp, db, callVars>>

\* The generators run and the local dict `result` is assembled.
Generate(w) ==
    /\ pc[w] = "received"
    /\ ~MakeTitleRaises(req[w].topic.val, req[w].keywords)
    /\ result' = [result EXCEPT ![w] = BuildResult(req[w])]
    /\ pc' = [pc EXCEPT ![w] = "generated"]
    /\ UNCHANGED <<req, attempt, resp, db, callVars>>

\* make_title raises IndexError; nothing in analyze catches it, so the
\* request ends with the framework's 500 response.
GenerateRaises(w) ==
    /\ pc[w] = "received"
    /\ MakeTitleRaises(req[w].topic.val, req[w].keywords)
    /\ pc' = [pc EXCEPT ![w] = "done"]
    /\ resp' = [resp EXCEPT ![w] = [code |-> 500, body |-> NoResult]]
    /\ UNCHANGED <<req, result, attempt, db, callVars>>

\* scored = evaluate({**result}); result.update(scored)
Score(w) ==
    /\ pc[w] = "generated"
    /\ result' = [result EXCEPT ![w] = Scored(result[w])]
    /\ pc' = [pc EXCEPT ![w] = "scored"]
    /\ UNCHANGED <<req, attempt, resp, db, callVars>>

\* Inside try: the Analysis record is built and create_document is called.
PersistCall(w) ==
    /\ pc[w] = "scored"
    /\ attempt' = [attempt EXCEPT ![w] = "pending"]
    /\ pc' = [pc EXCEPT ![w] = "persisting"]
    /\ UNCHANGED <<req, result, resp, db, callVars>>

\* create_document returns: the document is stored.
PersistReturns(w) ==
    /\ pc[w] = "persisting"
    /\ db' = Append(db, result[w])
    /\ attempt' = [attempt EXCEPT ![w] = "stored"]
    /\ pc' = [pc EXCEPT ![w] = "persisted"]
    /\ UNCHANGED <<req, result, resp, callVars>>

\* The statement inside try raises and no handler catches it: the request
\* ends with the framework's 500 response.
PersistRaisesUncaught(w) ==
    /\ pc[w] = "persisting"
    /\ attempt' = [attempt EXCEPT ![w] = "raised"]
    /\ pc' = [pc EXCEPT ![w] = "done"]
    /\ resp' = [resp EXCEPT ![w] = [code |-> 500, body |-> NoResult]]
    /\ UNCHANGED <<req, result, db, callVars>>

\* The statement inside try raises (the Analysis constructor or
\* create_document); `except Exception: pass` swallows the error.
PersistRaises(w) ==
    /\ pc[w] = "persisting"
    /\ attempt' = [attempt EXCEPT ![w] = "raised"]
    /\ pc' = [pc EXCEPT ![w] = "persisted"]
    /\ UNCHANGED <<req, result, resp, db, callVars>>

\* A return that does not wait for the try block to end.
ReturnEarly(w) ==
    /\ pc[w] \in {"persisting", "persisted"}
    /\ resp' = [resp EXCEPT ![w] = [code |-> 200, body |-> result[w]]]
    /\ pc' = [pc EXCEPT ![w] = "done"]
    /\ UNCHANGED <<req, result, attempt, db, callVars>>

\* return result, reached once the try statement has ended.
Return(w) ==
    /\ pc[w] = "persisted"
    /\ resp' = [resp EXCEPT ![w] = [code |-> 200, body |-> result[w]]]
    /\ pc' = [pc EXCEPT ![w] = "done"]
    /\ UNCHANGED <<req, result, attempt, db, callVars>>

Init ==
    /\ pc = [w \in Workers |-> "idle"]
    /\ req = [w \in Workers |-> NoRequest]
    /\ result = [w \in Workers |-> NoResult]
    /\ attempt = [w \in Workers |-> "none"]
    /\ resp = [w \in Workers |-> NoResponse]
    /\ db = <<>>
    /\ call = NoCall
    /\ status = "none"
    /\ ret = <<>>

Next ==
    \E w \in Workers :
        \/ Receive(w)
        \/ Generate(w)
        \/ GenerateRaises(w)
        \/ Score(w)
        \/ PersistCall(w)
        \/ PersistReturns(w)
        \/ PersistRaises(w)
        \/ Return(w)

Spec == Init /\ [][Next]_vars

\* One worker serving a request on its own, the request drawn from
\* AnalyzeRequests.
NextAnalyze ==
    \/ ReceiveFrom(1, AnalyzeRequests)
    \/ Generate(1)
    \/ GenerateRaises(1)
    \/ Score(1)
    \/ PersistCall(1)
    \/ PersistReturns(1)
    \/ PersistRaises(1)
    \/ Return(1)

SpecAnalyze == Init /\ [][NextAnalyze]_vars

\* ------------------------------------------------------------------------
\* The generators and the evaluator called on their own
\* ------------------------------------------------------------------------

CallBuildHashtags ==
    /\ status = "pending"
    /\ call.fn = "build_hashtags"
    /\ ret' = BuildHashtags(call.keywords, call.niche)
    /\ status' = "returned"
    /\ UNCHANGED <<call, handlerVars>>

CallMakeHook ==
    /\ status = "pending"
    /\ call.fn = "make_hook"
    /\ ret' = MakeHook(call.topic, call.audience)
    /\ status' = "returned"
    /\ UNCHANGED <<call, handlerVars>>

CallMakeTitle ==
    /\ status = "pending"
    /\ call.fn = "make_title"
    /\ ~MakeTitleRaises(call.topic, call.keywords)
    /\ ret' = MakeTitle(call.topic, call.keywords)
    /\ status' = "returned"
    /\ UNCHANGED <<call, handlerVars>>

CallMakeTitleRaises ==
    /\ status = "pending"
    /\ call.fn = "make_title"
    /\ MakeTitleRaises(call.topic, call.keywords)
    /\ status' = "raised"
    /\ UNCHANGED <<call, ret, handlerVars>>

CallEvaluate ==
    /\ status = "pending"
    /\ call.fn = "evaluate"
    /\ ret' = Evaluate(call.input)
    /\ status' = "returned"
    /\ UNCHANGED <<call, handlerVars>>

CallMakeDescription ==
    /\ status = "pending"
    /\ call.fn = "make_description"
    /\ ret' = MakeDescription(call.topic, call.keywords)
    /\ status' = "returned"
    /\ UNCHANGED <<call, handlerVars>>

CallPickBestTime ==
    /\ status = "pending"
    /\ call.fn = "pick_best_time"
    /\ ret' = PickBestTime(call.region, call.platform)
    /\ status' = "returned"
    /\ UNCHANGED <<call, handlerVars>>

CallChooseAngle ==
    /\ status = "pending"
    /\ call.fn = "choose_angle"
    /\ ret' = ChooseAngle(call.format_hint, call.topic)
    /\ status' = "returned"
    /\ UNCHANGED <<call, handlerVars>>

InitFn ==
    /\ pc = [w \in Workers |-> "idle"]
    /\ req = [w \in Workers |-> NoRequest]
    /\ result = [w \in Workers |-> NoResult]
    /\ attempt = [w \in Workers |-> "none"]
    /\ resp = [w \in Workers |-> NoResponse]
    /\ db = <<>>
    /\ call \in Calls
    /\ status = "pending"
    /\ ret = <<>>

NextFn ==
    \/ CallBuildHashtags
    \/ CallMakeHook
    \/ CallMakeTitle
    \/ CallMakeTitleRaises
    \/ CallEvaluate
    \/ CallMakeDescription
    \/ CallPickBestTime
    \/ CallChooseAngle

SpecFn == InitFn /\ [][NextFn]_vars

\* ------------------------------------------------------------------------
\* Properties
\* ------------------------------------------------------------------------

Returned(fn) == status = "returned" /\ call.fn = fn

\* The response of worker w is the handler's result record.
Answered(w) == pc[w] = "done" /\ resp[w].code = 200

\* C1: for every keyword list and every niche, present or absent,
\* build_hashtags returns at least 3 and at most 10 hashtags.
HashtagCountInRange ==
    Returned("build_hashtags") => 3 <= Len(ret) /\ Len(ret) <= 10

\* A call with nothing to build tags from, answered by padding alone.
HashtagCountWitness ==
    /\ Returned("build_hashtags")
    /\ call.keywords = <<>>
    /\ ~Truthy(call.niche)
    /\ Len(ret) = 3

\* C2: for a non-empty keyword list of at most 5 keywords and no niche, the
\* hashtags build_hashtags returns are pairwise distinct, compared
\* case-insensitively.
HashtagsDistinctIgnoringCase ==
    ( /\ Returned("build_hashtags")
      /\ call.keywords # <<>>
      /\ Len(call.keywords) <= 5
      /\ call.niche = None )
    => \A i, j \in 1..Len(ret) : i # j => Lower(ret[i]) # Lower(ret[j])

\* C3: the score evaluate returns is an integer in 0..100 and is
\* round(100 * t / 7), t being the number of criteria it reports true: the
\* integer nearest to 100 * t / 7 (a tie cannot occur, 7 being odd).
ScoreIsRoundedShare ==
    Returned("evaluate") =>
        LET t == Cardinality({c \in DOMAIN ret.criteria : ret.criteria[c]})
            d == 7 * ret.score - 100 * t
        IN  /\ DOMAIN ret.criteria =
                  {"hook_6_16_kata", "judul_mengandung_kata_kunci", "angle_spesifik",
                   "cta_jelas", "hashtag_3_10", "deskripsi_80_220", "ada_rekomendasi_jam"}
            /\ ret.score \in 0..100
            /\ 2 * d < 7
            /\ 2 * d > -7

\* Two true criteria of seven: 28.57..., which rounds up to 29.
ScoreWitness ==
    /\ Returned("evaluate")
    /\ Cardinality({c \in DOMAIN ret.criteria : ret.criteria[c]}) = 2
    /\ ret.score = 29

\* C4: when create_document raises, analyze surfaces no error and answers with
\* the very record it answers with when the document is stored.
PersistFailureChangesNothing ==
    \A w \in Workers :
        (pc[w] = "done" /\ attempt[w] = "raised") =>
            /\ Answered(w)
            /\ resp[w].body.built
            /\ \A v \in Workers :
                   (pc[v] = "done" /\ attempt[v] = "stored" /\ req[v] = req[w])
                   => resp[v] = resp[w]

\* The same request answered twice, once with the store failing.
PersistFailureWitness ==
    \E w, v \in Workers :
        /\ pc[w] = "done" /\ attempt[w] = "raised"
        /\ pc[v] = "done" /\ attempt[v] = "stored"
        /\ req[v] = req[w]
        /\ resp[w].code = 200

\* C5: every request that passes validation (any string as topic, any list of
\* strings as keywords) is answered with a complete result record; no
\* generator raises.
ValidRequestsAreAnswered ==
    \A w \in Workers :
        (pc[w] = "done" /\ req[w].topic.some) =>
            Answered(w) /\ resp[w].body.built

\* C6: under every interleaving of concurrent requests each response is the
\* record its request produces when processed alone; it depends on no other
\* request and on no persistence outcome.
ResponseDependsOnRequestOnly ==
    /\ \A w \in Workers :
           Answered(w) => resp[w].body = Scored(BuildResult(req[w]))
    /\ \A w, v \in Workers :
           (pc[w] = "done" /\ pc[v] = "done" /\ req[w] = req[v])
           => resp[w] = resp[v]

\* Two different requests answered, the second one's document stored first.
ConcurrentResponsesWitness ==
    \E w, v \in Workers :
        /\ w < v
        /\ Answered(w) /\ Answered(v)
        /\ req[w] # req[v]
        /\ db = <<resp[v].body, resp[w].body>>

\* C7 as first stated: the response does not wait for persistence, so it can
\* be returned while the create_document attempt is still under way.
ResponseDoesNotAwaitPersistence ==
    \A w \in Workers : pc[w] = "persisting" => ENABLED Return(w)

\* C7: the response is returned only once the create_document attempt has
\* ended, by returning or by raising; it is then returned whichever way the
\* attempt ended.
ResponseAwaitsPersistence ==
    /\ \A w \in Workers : Answered(w) => attempt[w] \in {"stored", "raised"}
    /\ \A w \in Workers : pc[w] = "persisted" => ENABLED Return(w)

\* A response sent after an attempt that raised.
ResponseAfterFailedAttempt ==
    \E w \in Workers : Answered(w) /\ attempt[w] = "raised" /\ db = <<>>

\* C8: the result record carries every request field with the value the
\* request gave it, platform included.
ResultEchoesRequest ==
    \A w \in Workers :
        Answered(w) =>
            /\ resp[w].body.topic = req[w].topic.val
            /\ resp[w].body.keywords = req[w].keywords
            /\ resp[w].body.niche = req[w].niche
            /\ resp[w].body.audience = req[w].audience
            /\ resp[w].body.platform = req[w].platform
            /\ resp[w].body.region = req[w].region

\* C9: each of the first five keywords that is non-empty once stripped puts
\* both its plain and its capitalized "#" tag in the hashtags analyze returns;
\* for keywords ["capcut", "editing"] these include "#capcut" and "#Capcut".
KeywordsYieldBothVariants ==
    \A w \in Workers :
        Answered(w) =>
            LET tags == {resp[w].body.hashtags[i] :
                            i \in 1..Len(resp[w].body.hashtags)}
                first == Take(req[w].keywords, 5)
            IN  \A i \in 1..Len(first) :
                    LET k2 == RemoveSpaces(Strip(first[i]))
                    IN  k2 # <<>> =>
                            Hash(k2) \in tags /\ Hash(Capitalize(k2)) \in tags

\* C10: for every topic and every audience, present or absent, the hook has at
\* least 6 and at most 16 whitespace-delimited words.
HookWordCountInRange ==
    Returned("make_hook") => 6 <= Len(Split(ret)) /\ Len(Split(ret)) <= 16

\* The shortest base sentence (no word in topic, no audience), padded.
HookPaddedWitness ==
    /\ Returned("make_hook")
    /\ Split(call.topic) = <<>>
    /\ ~Truthy(call.audience)
    /\ Len(Split(ret)) = 10

\* C11: for every topic and every keyword list, the description
\* make_description returns has at least 80 and at most 220 characters.
DescriptionLengthInRange ==
    Returned("make_description") => 80 <= Len(ret) /\ Len(ret) <= 220

\* The shortest core sentence (empty topic, no keywords), with the filler.
DescriptionFilledWitness ==
    /\ Returned("make_description")
    /\ call.topic = <<>>
    /\ call.keywords = <<>>
    /\ Len(ret) >= 80

PostTimeIsThirdSlot ==
    Returned("pick_best_time") =>
        LET slot == IF call.platform = <<"s", "h", "o", "r", "t", "s">>
                    THEN <<"1", "8", ":", "3", "0">>
                    ELSE <<"1", "9", ":", "0", "0">>
            region == IF call.region.some /\ call.region.val # <<>>
                      THEN call.region.val
                      ELSE <<"W", "I", "B">>
        IN  ret = slot \o <<" ">> \o region
                  \o <<" ", "(", "±", "1", " ", "j", "a", "m", ")">>

\* pick_best_time("shorts") with no region has returned.
PostTimeShortsWitness ==
    /\ Returned("pick_best_time")
    /\ call.platform = Shorts
    /\ call.region = None
    /\ Take(ret, 5) = <<"1", "8", ":", "3", "0">>

\* C14: choose_angle matches its format hint case-insensitively against
\* "tutorial", "listicle", "study" and "review" and returns the matching
\* template (for "tutorial" one containing "Tutorial langkah-demi-langkah");
\* every other hint gets the template beginning "Kerangka eksekusi praktis".
AngleMatchesIgnoringCase ==
    Returned("choose_angle") =>
        LET hint == Lower(call.format_hint)
        IN  /\ hint = Tutorial =>
                   /\ ret = AngleTutorialPre \o call.topic \o AngleTutorialPost
                   /\ Contains(ret,
                        <<"T", "u", "t", "o", "r", "i", "a", "l", " ">> \o
                        <<"l", "a", "n", "g", "k", "a", "h", "-", "d", "e", "m", "i", "-", "l", "a", "n", "g", "k", "a", "h">>)
            /\ hint = Listicle =>
                   ret = AngleListiclePre \o call.topic \o AngleListiclePost
            /\ hint = Study =>
                   ret = AngleStudyPre \o call.topic \o AngleStudyPost
            /\ hint = Review =>
                   ret = AngleReviewPre \o call.topic \o AngleReviewPost
            /\ hint \notin {Tutorial, Listicle, Study, Review} =>
                   /\ Take(ret, 25) =
                        <<"K", "e", "r", "a", "n", "g", "k", "a", " ">> \o
                        <<"e", "k", "s", "e", "k", "u", "s", "i", " ", "p", "r", "a", "k", "t", "i", "s">>
                   /\ ret = AngleGenericPre \o call.topic \o AngleGenericPost

\* A hint spelled with a capital letter has matched "tutorial".
AngleCapitalHintWitness ==
    /\ Returned("choose_angle")
    /\ call.format_hint # Tutorial
    /\ Lower(call.format_hint) = Tutorial
    /\ Take(ret, 8) = <<"T", "u", "t", "o", "r", "i", "a", "l">>

\* C15: make_title returns capitalize(k) + ": " + topic + " | Panduan Lengkap",
\* k being the first element of keywords when keywords is non-empty and
\* otherwise the first whitespace-delimited word of topic.
TitleFromFirstKeywordOrWord ==
    (call.fn = "make_title" /\ status # "pending") =>
        /\ call.keywords # <<>> =>
               /\ status = "returned"
               /\ ret = Capitalize(call.keywords[1]) \o <<":", " ">>
                        \o call.topic \o TitleSuffix
        /\ (call.keywords = <<>> /\ Split(call.topic) # <<>>) =>
               /\ status = "returned"
               /\ ret = Capitalize(Split(call.topic)[1]) \o <<":", " ">>
                        \o call.topic \o TitleSuffix

\* A title built from the first keyword although topic has a word of its own.
TitleFromKeywordWitness ==
    /\ Returned("make_title")
    /\ call.keywords # <<>>
    /\ Split(call.topic) # <<>>
    /\ call.keywords[1] # Split(call.topic)[1]
    /\ Take(ret, Len(call.keywords[1])) = Capitalize(call.keywords[1])

\* "Kerangka eksekusi praktis"
GenericAngleStart ==
    <<"K", "e", "r", "a", "n", "g", "k", "a", " ", "e", "k", "s", "e", "k", "u", "s", "i",
      " ", "p", "r", "a", "k", "t", "i", "s">>

\* C16: in analyze the angle is the template of the request's platform when
\* platform is exactly "tutorial", "listicle", "study" or "review", and the
\* "tutorial" template for every other platform ("youtube", "shorts", other
\* spellings of the four); no result carries the generic angle.
AnalyzeAngleByExactPlatform ==
    Answered(1) =>
        LET platform == req[1].platform
            topic == req[1].topic.val
            angle == resp[1].body.angle
        IN  /\ angle =
                   IF platform = <<"l", "i", "s", "t", "i", "c", "l", "e">>
                   THEN AngleListiclePre \o topic \o AngleListiclePost
                   ELSE IF platform = <<"s", "t", "u", "d", "y">>
                   THEN AngleStudyPre \o topic \o AngleStudyPost
                   ELSE IF platform = <<"r", "e", "v", "i", "e", "w">>
                   THEN AngleReviewPre \o topic \o AngleReviewPost
                   ELSE AngleTutorialPre \o topic \o AngleTutorialPost
            /\ Take(angle, Len(GenericAngleStart)) # GenericAngleStart

\* A request for platform "Review", answered with the "tutorial" template.
AngleOtherSpellingWitness ==
    /\ Answered(1)
    /\ req[1].platform = <<"R", "e", "v", "i", "e", "w">>
    /\ Take(resp[1].body.angle, 8) = <<"T", "u", "t", "o", "r", "i", "a", "l">>

\* The criteria of a result record that are true.
TrueCriteria(body) == {c \in DOMAIN body.criteria : body.criteria[c]}

\* C17 as first stated: for every request analyze answers, all seven criteria
\* are true and the score is 100.
AllCriteriaAlwaysHold ==
    Answered(1) =>
        /\ TrueCriteria(resp[1].body) = DOMAIN resp[1].body.criteria
        /\ resp[1].body.score = 100

\* C17: for every request analyze answers, the six criteria other than
\* judul_mengandung_kata_kunci are true; that one is true too, and the score
\* 100, whenever keywords is empty or the first keyword's capitalize()
\* lower-cases to the keyword's own lower(); otherwise (first keyword "ß",
\* capitalized "Ss") it is true only if some keyword's lower() occurs in the
\* lower-cased title, and when it is false the score is 86.
CriteriaHoldButTitleKeyword ==
    Answered(1) =>
        LET body == resp[1].body
            kws == req[1].keywords
            inTitle == \E i \in 1..Len(kws) :
                           Contains(Lower(body.seo_title), Lower(kws[i]))
        IN  /\ DOMAIN body.criteria \ TrueCriteria(body)
                   \subseteq {"judul_mengandung_kata_kunci"}
            /\ (kws = <<>> \/ Lower(Capitalize(kws[1])) = Lower(kws[1])) =>
                   /\ body.criteria.judul_mengandung_kata_kunci
                   /\ body.score = 100
            /\ body.criteria.judul_mengandung_kata_kunci = (kws = <<>> \/ inTitle)
            /\ body.score = IF body.criteria.judul_mengandung_kata_kunci
                            THEN 100 ELSE 86

\* A request with keywords and neither niche nor audience, scored 100.
FullScoreWitness ==
    /\ Answered(1)
    /\ req[1].keywords = <<Capcut, Editing>>
    /\ req[1].niche = None
    /\ req[1].audience = None
    /\ resp[1].body.score = 100

====
